---- MODULE Spec2Model ----
(***************************************************************************)
(* Ingestion pipeline of python_prediction_major_project.                  *)
(*                                                                         *)
(*   Spec       update_github_data (app/pipeline/update_github_metrics.py) *)
(*              run any number of times against the tables github_metrics  *)
(*              and historical_metrics.                                    *)
(*   SpecMerge  fetch_all_merge_dates (app/pipeline/fetch_merge_dates.py)  *)
(*              run any number of times against the table merge_dates;     *)
(*              FairSpecMerge is SpecMerge with weak fairness of its steps.*)
(*   SpecFetch  one call of a paginated fetcher: fetch_org_repos,          *)
(*              fetch_repo_pr_data (app/services/github_service.py) or     *)
(*              fetch_merged_prs_for_repo, against a listing of the source;*)
(*              FairSpecFetch is SpecFetch with weak fairness of its steps.*)
(*   SpecList   one call of get_organization_list (app/pipeline/helper.py) *)
(*              with extract_org_name_from_url, over the records of the    *)
(*              query; a str is the sequence of its characters. The call   *)
(*              is the one update_github_data makes, which filters the     *)
(*              list once more.                                            *)
(*   SpecMetrics one call of calculate_metrics over the pull requests      *)
(*              fetch_repo_pr_data returns for each repository.            *)
(***************************************************************************)
EXTENDS Integers, Sequences, FiniteSets, TLC

\* ---------------------------------------------------------------- bounds
NumOrgs == 3         \* organizations
MaxRuns == 2         \* calls of update_github_data
MaxBatches == 2      \* calls of fetch_all_merge_dates
NumRepos == 1        \* repositories of an organization
MaxPRNum == 2        \* pull-request numbers of a repository
MaxInstant == 1      \* merge instants 0 .. MaxInstant
TicksPerDay == 2     \* instants per calendar day
MaxPageLen == 2      \* pull requests on one page of a listing
MaxListPages == 2    \* pages of a listing
MaxEvents == 2       \* merge events one organization yields in one call
MaxRows == 3         \* rows of merge_dates
MaxVaried == 2       \* pages of a listing whose items differ in their data
MaxAnswers == 2      \* answers of the source to one call that are kept
MaxSeen == 3         \* entries of a pull-request listing that may be merged
MaxRecords == 2      \* records the query of get_organization_list yields
MaxSegments == 3     \* path segments of a profile URL
MaxMetricRepos == 4  \* repositories handed to calculate_metrics
MaxFetched == 4      \* pull requests fetch_repo_pr_data returns for one repository

\* ------------------------------------------------------ program constants
retries == 3
max_pages == 10      \* fetch_merged_prs_for_repo
top_repos == 5       \* repos[:5]
repos_max_pages == 10   \* fetch_org_repos
prs_max_pages == 20     \* fetch_repo_pr_data
top_starred == 5        \* sorted(...)[:5]
ndigits == 3            \* round(merge_frequency, 3)

OrgIds == 1 .. NumOrgs

VARIABLES
    run,                 \* number of update_github_data runs started; also the clock
    orgs,                \* the list get_organization_list returned to this run
    idx,                 \* position of the for loop in orgs
    pc,                  \* where update_github_data stands
    worker,              \* per organization: the thread running fetch_github_org_data
    future,              \* the future of the current executor
    response,            \* fetch_github_org_data: how GET /orgs/{org_name} was answered
    raised,              \* the exception travelling out of the with block
    data,                \* the value fetch_github_org_data returned
    attempt,             \* the retry loop's variable
    log,                 \* how the persist attempts of the last fetched organization ended
    outcome,             \* per organization: how this run left it
    github_metrics,      \* table github_metrics, in id order
    historical_metrics,  \* table historical_metrics, in id order
    batches,             \* number of fetch_all_merge_dates calls started
    m_pc,                \* where fetch_all_merge_dates stands
    m_orgs,              \* the slugs fetch_all_merge_dates read from github_metrics
    m_idx,               \* position of "for slug, name in orgs"
    repos,               \* fetch_merge_dates_for_organization: repos
    r_idx,               \* position of "for repo in repos"
    page,                \* fetch_merged_prs_for_repo: page
    pos,                 \* fetch_merged_prs_for_repo: entries of prs gone through
    merged_prs,          \* fetch_merged_prs_for_repo: merged_prs
    all_merged_prs,      \* fetch_merge_dates_for_organization: all_merged_prs
    total_merges,        \* fetch_all_merge_dates: total_merges
    merge_dates,         \* table merge_dates, in id order
    prev,                \* the last storing step: its slug, its list, how it ended, the
                         \* count it returned, and how the storing step before it
                         \* ended if that one had the same slug and the same list
    fn,                  \* the paginated fetcher that is called
    offered,             \* number of pages the listing of the source has
    f_pc,                \* where the fetcher stands
    url,                 \* fetch_org_repos, fetch_repo_pr_data: the page url asks for, 0 for None
    page_count,          \* fetch_org_repos, fetch_repo_pr_data: page_count
    w_page,              \* fetch_merged_prs_for_repo: page
    w_pos,               \* fetch_merged_prs_for_repo: entries of prs gone through
    acc,                 \* the list the fetcher accumulates: repos, prs or merged_prs
    returned,            \* what the call returned and on which way
    seen,                \* fetch_merged_prs_for_repo: the entries "for pr in prs" has gone
                         \* through, the first MaxSeen of them
    answers,             \* the answers of the source to the requests of the call, the
                         \* first MaxAnswers of them
    n_pc,                \* where get_organization_list stands
    org_id,              \* get_organization_list: org_id of "for ... in orgs"
    github_url,          \* get_organization_list: github_url of the record
    n_slug,              \* get_organization_list: slug of the record
    github_slug,         \* get_organization_list: github_slug
    normalized_orgs,     \* get_organization_list: normalized_orgs
    seen_slugs,          \* get_organization_list: seen_slugs
    skipped_without_identifier,  \* get_organization_list: the counter of that name
    n_start_from_id,     \* get_organization_list, update_github_data: start_from_id,
                         \* the empty set for None, else the set of the one id
    yielded,             \* get_organization_list: per record gone through, its id and
                         \* the github_slug its pass of the loop ended with
    u_orgs,              \* update_github_data: orgs, as the call from it leaves them
    c_pc,                \* where calculate_metrics stands
    c_left,              \* calculate_metrics: repositories "for repo in repos" has to go
    c_prs,               \* calculate_metrics: prs
    c_total_prs,         \* calculate_metrics: total_prs
    c_merged_prs,        \* calculate_metrics: merged_prs
    c_result             \* what calculate_metrics returned

fvars == << fn, offered, f_pc, url, page_count, w_page, w_pos, acc, returned,
            seen, answers >>

nvars == << n_pc, org_id, github_url, n_slug, github_slug, normalized_orgs,
            seen_slugs, skipped_without_identifier, n_start_from_id, yielded, u_orgs >>

cvars == << c_pc, c_left, c_prs, c_total_prs, c_merged_prs, c_result >>

\* the variables of the two functions called on their own
pvars == << nvars, cvars >>

\* the variables of update_github_data but github_metrics, and those of
\* fetch_all_merge_dates
ustate == << run, orgs, idx, pc, worker, future, response, raised, data, attempt,
             log, outcome, historical_metrics >>

mstate == << batches, m_pc, m_orgs, m_idx, repos, r_idx, page, pos, merged_prs,
             all_merged_prs, total_merges, merge_dates, prev >>

\* what a step of fetch_all_merge_dates, and what a step of update_github_data,
\* leaves alone
uvars == << ustate, fvars, pvars >>

mvars == << mstate, fvars, pvars >>

vars == << uvars, mvars, github_metrics >>

\* ------------------------------------------------------------- data types
None == "None"

\* the elements of a list
Range(s) == { s[i] : i \in 1 .. Len(s) }

\* what calculate_metrics hands to fetch_github_org_data
Metrics == { [total_prs |-> 2, merged_prs |-> 1] }

\* the dict fetch_github_org_data returns for slug o fetched at time t
OrgData(o, t, m) ==
    [slug |-> o, fetched_at |-> t, total_prs |-> m.total_prs, merged_prs |-> m.merged_prs]

\* the organizations of a run: ordered by id, one entry per handle
RECURSIVE SortedSeq(_)
SortedSeq(S) ==
    IF S = {} THEN << >>
    ELSE LET m == CHOOSE x \in S : \A y \in S : x <= y
         IN  << m >> \o SortedSeq(S \ {m})

\* ------------------------------------------------------------ the storage
\* where a persist attempt can fail, and how
FaultPoints == { "query", "flush_metrics", "flush_historical", "commit" }
FaultKinds == { "OperationalError", "Exception" }
NoFault == [point |-> "none", kind |-> "none"]
Faults == { NoFault } \cup [point : FaultPoints, kind : FaultKinds]

\* session.query(GitHubMetrics).filter_by(slug=github_slug).first()
Existing(tbl, slug) ==
    IF \E i \in 1 .. Len(tbl) : tbl[i].slug = slug
    THEN CHOOSE i \in 1 .. Len(tbl) :
            /\ tbl[i].slug = slug
            /\ \A j \in 1 .. Len(tbl) : tbl[j].slug = slug => i <= j
    ELSE 0

\* the fields of a github_metrics row that update_github_data assigns
MetricsRow(slug, d) ==
    [slug |-> slug, fetched_at |-> d.fetched_at,
     pull_requests |-> d.total_prs, merged_prs |-> d.merged_prs]

\* a variant of the branch "if existing" that leaves the row as it was
UpdateExistingStale(tbl, i, slug, d) == tbl

\* the branch "if existing": the row is updated in place
UpdateExisting(tbl, i, slug, d) == [tbl EXCEPT ![i] = MetricsRow(slug, d)]

\* the branch "else": session.add(new_entry)
InsertNew(tbl, slug, d) == Append(tbl, MetricsRow(slug, d))

UpsertSnapshot(tbl, slug, d) ==
    LET i == Existing(tbl, slug)
    IN  IF i # 0 THEN UpdateExisting(tbl, i, slug, d) ELSE InsertNew(tbl, slug, d)

\* a variant of the historical write that overwrites the rows of the organization
AddHistoricalReplacing(tbl, slug, d, now) ==
    LET row == [organization_slug |-> slug, total_prs |-> d.total_prs,
                merged_prs |-> d.merged_prs, recorded_at |-> now]
    IN  IF \E i \in 1 .. Len(tbl) : tbl[i].organization_slug = slug
        THEN [ i \in 1 .. Len(tbl) |->
                 IF tbl[i].organization_slug = slug THEN row ELSE tbl[i] ]
        ELSE Append(tbl, row)

\* session.add(historical_entry)
AddHistorical(tbl, slug, d, now) ==
    Append(tbl, [organization_slug |-> slug, total_prs |-> d.total_prs,
                 merged_prs |-> d.merged_prs, recorded_at |-> now])

\* Column(String, unique=True) on github_metrics.slug
UniqueSlug(tbl) ==
    \A i, j \in 1 .. Len(tbl) : tbl[i].slug = tbl[j].slug => i = j

\* a variant in which a commit that reports a failure has written all the same
CommittedDespiteError(m, h, slug, d, now, f) ==
    LET m1 == UpsertSnapshot(m, slug, d)
        h1 == AddHistorical(h, slug, d, now)
    IN  IF f.point \in { "none", "commit" } /\ UniqueSlug(m1)
        THEN [metrics |-> m1, historical |-> h1]
        ELSE [metrics |-> m, historical |-> h]

\* a variant in which every statement reaches the tables on its own
CommittedPerStatement(m, h, slug, d, now, f) ==
    LET m1 == UpsertSnapshot(m, slug, d)
        h1 == AddHistorical(h, slug, d, now)
    IN  CASE f.point \in { "query", "flush_metrics" } -> [metrics |-> m, historical |-> h]
          [] f.point = "flush_historical" -> [metrics |-> m1, historical |-> h]
          [] OTHER -> [metrics |-> m1, historical |-> h1]

\* What one pass through "with SessionLocal() as session: ... session.commit()"
\* leaves in the tables: both writes are staged in the session and reach the
\* tables in the one transaction of session.commit(); a failure anywhere before
\* the transaction has committed leaves the tables as they were.
Committed(m, h, slug, d, now, f) ==
    LET m1 == UpsertSnapshot(m, slug, d)
        h1 == AddHistorical(h, slug, d, now)
    IN  IF f.point = "none" /\ UniqueSlug(m1)
        THEN [metrics |-> m1, historical |-> h1]
        ELSE [metrics |-> m, historical |-> h]

\* how the attempt ends: "ok", or the class of the exception it raised
AttemptResult(m, slug, d, f) ==
    IF f.point # "none" THEN f.kind
    ELSE IF UniqueSlug(UpsertSnapshot(m, slug, d)) THEN "ok"
    ELSE "Exception"    \* IntegrityError

\* a variant of the retry loop that goes on after any error
RetriesAnyError(res, att) ==
    IF res = "ok" THEN "done"
    ELSE IF att < retries - 1 THEN "retry" ELSE "failed"

\* a variant of the retry loop without the break after a success
RetriesAfterSuccess(res, att) ==
    IF res = "Exception" THEN "aborted"
    ELSE IF att < retries - 1 THEN "retry"
    ELSE IF res = "ok" THEN "done" ELSE "failed"

\* the control flow of "for attempt in range(retries)" after one attempt:
\* break on success, break on an unexpected error, next attempt after an
\* OperationalError, the loop ends after the last attempt
AfterAttempt(res, att) ==
    IF res = "ok" THEN "done"
    ELSE IF res = "Exception" THEN "aborted"
    ELSE IF att < retries - 1 THEN "retry" ELSE "failed"

\* ------------------------------------------------ the merge-event ingestion
RepoIds == 1 .. NumRepos
Instants == 0 .. MaxInstant

\* cutoff_date = datetime.utcnow() - timedelta(days=days)
cutoff_date == (MaxInstant + 1) \div 2

\* the "merged_at" of a pull request: null, a string datetime.fromisoformat
\* rejects, or the ISO string of an instant
Null == [kind |-> "null"]
Unparsable == [kind |-> "unparsable"]
Iso(t) == [kind |-> "iso", t |-> t]
MergedAt == { Null, Unparsable } \cup { Iso(t) : t \in Instants }

\* one pull request of a listing; its number is read only when it is recorded
PullRequests ==
    [number : { 1 }, merged_at : { Null, Unparsable } \cup { Iso(t) : t \in 0 .. cutoff_date - 1 }]
        \cup [number : 1 .. MaxPRNum, merged_at : { Iso(t) : t \in cutoff_date .. MaxInstant }]

\* pr["merged_at"].date()
DateOf(t) == t \div TicksPerDay

\* a variant of the loop body that ends the walk at a merge time it cannot parse
ProcessPRStopsAtUnparsable(pr) ==
    IF pr.merged_at = Null THEN "skip"
    ELSE IF pr.merged_at = Unparsable THEN "return"
    ELSE IF pr.merged_at.t >= cutoff_date THEN "append"
    ELSE "return"

\* a variant of the loop body that keeps a pull request merged before the cutoff
ProcessPRKeepsOld(pr) ==
    IF pr.merged_at = Null THEN "skip"
    ELSE IF pr.merged_at = Unparsable THEN "skip"
    ELSE "append"

\* the body of "for pr in prs" for one pull request: "skip" (not merged, or the
\* except clause), "append", or "return" (merged before the cutoff)
ProcessPR(pr) ==
    IF pr.merged_at = Null THEN "skip"
    ELSE IF pr.merged_at = Unparsable THEN "skip"
    ELSE IF pr.merged_at.t >= cutoff_date THEN "append"
    ELSE "return"

\* the dict appended to merged_prs
MergedPR(pr, repo) == [merged_at |-> pr.merged_at.t, number |-> pr.number, repo |-> repo]

\* repos[:5]
FirstN(s, n) == SubSeq(s, 1, IF Len(s) < n THEN Len(s) ELSE n)

\* the MergeDate row built from one fetched event
MergeDateRow(slug, pr) ==
    [organization_slug |-> slug, merge_date |-> DateOf(pr.merged_at),
     merged_at |-> pr.merged_at, repository_name |-> pr.repo,
     pull_request_number |-> pr.number]

\* the natural key of a row
NaturalKey(row) ==
    << row.organization_slug, row.merge_date, row.pull_request_number, row.repository_name >>

KeySet(tbl) == { NaturalKey(tbl[i]) : i \in 1 .. Len(tbl) }

\* a variant of the lookup that never finds a row
NeverExisting(tbl, row) == FALSE

\* session.query(MergeDate).filter(slug, merge_date, number, repo).first():
\* SessionLocal is made with autoflush=False, so the query sees the rows of the
\* table and none of the rows this session has added
ExistingMergeDate(tbl, row) == NaturalKey(row) \in KeySet(tbl)

\* "for pr in all_merged_prs": the rows session.add is called with
PendingRows(tbl, slug, prs) ==
    SelectSeq([ i \in 1 .. Len(prs) |-> MergeDateRow(slug, prs[i]) ],
              LAMBDA row : ~ExistingMergeDate(tbl, row))

\* how the storing step of fetch_merge_dates_for_organization can fail
StoreFaults(count) ==
    { "none", "lookup" } \cup
        IF count > 0 THEN { "commit_OperationalError", "commit_Exception" } ELSE {}

\* a variant of the storing step in which a failed commit leaves its rows
StoreMergeDatesKept(tbl, slug, prs, f) ==
    LET pending == PendingRows(tbl, slug, prs)
    IN  IF f \in { "none", "commit_OperationalError", "commit_Exception" }
        THEN [table |-> tbl \o pending,
              count |-> IF f = "none" THEN Len(pending) ELSE 0,
              end |-> IF f = "none" THEN "stored" ELSE "rolled_back"]
        ELSE [table |-> tbl, count |-> 0, end |-> "raised"]

\* the storing step: the table it leaves and the count it returns; a failed
\* lookup raises out of the function, a failed commit is rolled back
StoreMergeDates(tbl, slug, prs, f) ==
    LET pending == PendingRows(tbl, slug, prs)
    IN  IF f = "none"
        THEN [table |-> tbl \o pending, count |-> Len(pending), end |-> "stored"]
        ELSE [table |-> tbl, count |-> 0,
              end |-> IF f = "lookup" THEN "raised" ELSE "rolled_back"]

\* the state of the merge side while fetch_all_merge_dates is not running
MergeIdle ==
    /\ batches = 0
    /\ m_pc = "idle"
    /\ m_orgs = << >>
    /\ m_idx = 1
    /\ repos = << >>
    /\ r_idx = 1
    /\ page = 1
    /\ pos = 0
    /\ merged_prs = << >>
    /\ all_merged_prs = << >>
    /\ total_merges = 0
    /\ merge_dates = << >>
    /\ prev = [slug |-> 0, prs |-> << >>, end |-> "none", count |-> 0, before |-> "none"]

\* the call has not returned
NotReturned == [value |-> << >>, why |-> "none"]

\* the state of the fetcher variables while no fetcher of SpecFetch is called
FetchIdle ==
    /\ fn = "none"
    /\ offered = 0
    /\ f_pc = "idle"
    /\ url = 0
    /\ page_count = 0
    /\ w_page = 1
    /\ w_pos = 0
    /\ acc = << >>
    /\ returned = NotReturned
    /\ seen = << >>
    /\ answers = << >>

\* a str of Python is the sequence of its characters; None among them is the
\* one sequence that is no str
NoneStr == << "None" >>

\* the state of get_organization_list and of calculate_metrics while they are
\* not called on their own
ListIdle ==
    /\ n_pc = "idle"
    /\ org_id = 0
    /\ github_url = NoneStr
    /\ n_slug = NoneStr
    /\ github_slug = NoneStr
    /\ normalized_orgs = << >>
    /\ seen_slugs = { }
    /\ skipped_without_identifier = 0
    /\ n_start_from_id = { }
    /\ yielded = << >>
    /\ u_orgs = << >>

MetricsIdle ==
    /\ c_pc = "idle"
    /\ c_left = 0
    /\ c_prs = << >>
    /\ c_total_prs = 0
    /\ c_merged_prs = 0
    /\ c_result = [total_prs |-> 0, merged_prs |-> 0, merge_frequency |-> 0]

\* the state of the update side while update_github_data has not been called
UpdateIdle ==
    /\ run = 0
    /\ orgs = << >>
    /\ idx = 1
    /\ pc = "idle"
    /\ worker = [o \in OrgIds |-> "idle"]
    /\ future = "none"
    /\ response = "none"
    /\ raised = "none"
    /\ data = None
    /\ attempt = 0
    /\ log = << >>
    /\ outcome = [o \in OrgIds |-> "none"]
    /\ github_metrics = << >>
    /\ historical_metrics = << >>

\* ------------------------------------------------------------- the actions
Init ==
    /\ UpdateIdle
    /\ MergeIdle
    /\ FetchIdle
    /\ ListIdle
    /\ MetricsIdle

Cur == orgs[idx]

\* the three "continue" of the fetch step: timeout, exception, no data
Skips == { "skip_timeout", "skip_error", "skip_nodata" }

\* update_github_data is called: get_organization_list gives the run its list
StartRun ==
    /\ pc = "idle"
    /\ run < MaxRuns
    /\ \E S \in SUBSET OrgIds : orgs' = SortedSeq(S)
    /\ run' = run + 1
    /\ idx' = 1
    /\ pc' = "loop"
    /\ outcome' = [o \in OrgIds |-> "none"]
    /\ UNCHANGED << worker, future, response, raised, data, attempt, log,
                    github_metrics, historical_metrics >>
    /\ UNCHANGED mvars

\* "for org in orgs" is exhausted: "All organizations processed."
EndRun ==
    /\ pc = "loop"
    /\ idx > Len(orgs)
    /\ pc' = "idle"
    /\ log' = << >>
    /\ UNCHANGED << run, orgs, idx, worker, future, response, raised, data, attempt,
                    outcome, github_metrics, historical_metrics >>
    /\ UNCHANGED mvars

\* executor.submit(fetch_github_org_data, github_slug)
Submit ==
    /\ pc = "loop"
    /\ idx <= Len(orgs)
    /\ worker' = [worker EXCEPT ![Cur] = "running"]
    /\ future' = "pending"
    /\ log' = << >>
    /\ pc' = "result"
    /\ UNCHANGED << run, orgs, idx, response, raised, data, attempt, outcome,
                    github_metrics, historical_metrics >>
    /\ UNCHANGED mvars

\* how the request for the profile of the organization can be answered: a
\* status, or requests.exceptions.Timeout (another RequestException is
\* handled as that one is)
ProfileAnswers == { "200", "403", "500", "Timeout" }

\* a variant of fetch_github_org_data that goes on after a 403
fetch_github_org_data_past_403(a) ==
    IF a \in { "200", "403" } THEN { "dict", "raised" } ELSE { "None" }

\* fetch_github_org_data: None unless the profile request is answered 200; then
\* the dict, unless response.json() or the computing of the metrics raises
fetch_github_org_data(a) ==
    IF a = "200" THEN { "dict", "raised" } ELSE { "None" }

\* fetch_github_org_data returns in its thread: None, a dict, or it raises
WorkerFinish(o) ==
    /\ worker[o] = "running"
    /\ worker' = [worker EXCEPT ![o] = "idle"]
    /\ IF pc \in { "result", "exit" } /\ Cur = o /\ future = "pending"
       THEN \E a \in ProfileAnswers :
              /\ response' = a
              /\ future' \in fetch_github_org_data(a)
              /\ IF future' = "dict"
                 THEN \E m \in Metrics : data' = OrgData(o, run, m)
                 ELSE data' = data
       ELSE UNCHANGED << future, response, data >>
    /\ UNCHANGED << run, orgs, idx, pc, raised, attempt, log, outcome,
                    github_metrics, historical_metrics >>
    /\ UNCHANGED mvars

\* future.result(timeout=600) returns or re-raises what the fetch raised
FutureResult ==
    /\ pc = "result"
    /\ future # "pending"
    /\ raised' = IF future = "raised" THEN "Exception" ELSE "none"
    /\ pc' = "exit"
    /\ UNCHANGED << run, orgs, idx, worker, future, response, data, attempt, log,
                    outcome, github_metrics, historical_metrics >>
    /\ UNCHANGED mvars

\* future.result(timeout=600) raises TimeoutError: 600 s went by, no result
FutureTimeout ==
    /\ pc = "result"
    /\ future = "pending"
    /\ raised' = "TimeoutError"
    /\ pc' = "exit"
    /\ UNCHANGED << run, orgs, idx, worker, future, response, data, attempt, log,
                    outcome, github_metrics, historical_metrics >>
    /\ UNCHANGED mvars

\* a variant of the executor exit that does not join the worker: shutdown(wait=False)
ShutdownNoWait(o) == TRUE

\* a variant of the executor exit that leaves a timed-out worker behind
ShutdownUnlessTimedOut(o) == raised = "TimeoutError" \/ worker[o] # "running"

\* ThreadPoolExecutor.__exit__ is shutdown(wait=True): it joins the worker thread
ShutdownDone(o) == worker[o] # "running"

\* the with block is left; then the except clauses and "if not data"
ExecutorExit ==
    /\ pc = "exit"
    /\ ShutdownDone(Cur)
    /\ IF raised = "none" /\ future = "dict"
       THEN /\ pc' = "persist"
            /\ UNCHANGED << idx, outcome, data >>
       ELSE /\ pc' = "loop"
            /\ idx' = idx + 1
            /\ data' = None
            /\ outcome' = [outcome EXCEPT ![Cur] =
                             IF raised = "TimeoutError" THEN "skip_timeout"
                             ELSE IF raised = "Exception" THEN "skip_error"
                             ELSE "skip_nodata"]
    /\ future' = "none"
    /\ response' = "none"
    /\ raised' = "none"
    /\ UNCHANGED << run, orgs, worker, attempt, log, github_metrics, historical_metrics >>
    /\ UNCHANGED mvars

\* one pass of the retry loop: the session block and its except clauses
PersistAttempt ==
    /\ pc = "persist"
    /\ \E f \in Faults :
         LET res == AttemptResult(github_metrics, Cur, data, f)
             db == Committed(github_metrics, historical_metrics, Cur, data, run, f)
             nxt == AfterAttempt(res, attempt)
         IN  /\ github_metrics' = db.metrics
             /\ historical_metrics' = db.historical
             /\ log' = Append(log, res)
             /\ IF nxt = "retry"
                THEN /\ attempt' = attempt + 1
                     /\ UNCHANGED << pc, idx, outcome, data >>
                ELSE /\ pc' = "loop"
                     /\ idx' = idx + 1
                     /\ outcome' = [outcome EXCEPT ![Cur] = nxt]
                     /\ attempt' = 0
                     /\ data' = None
    /\ UNCHANGED << run, orgs, worker, future, response, raised >>
    /\ UNCHANGED mvars

Next ==
    \/ StartRun
    \/ EndRun
    \/ Submit
    \/ \E o \in OrgIds : WorkerFinish(o)
    \/ FutureResult
    \/ FutureTimeout
    \/ ExecutorExit
    \/ PersistAttempt

Spec == Init /\ [][Next]_vars

\* ------------------------------------------- fetch_all_merge_dates, actions
\* github_metrics as runs of update_github_data can have left it
InitMerge ==
    /\ run = 0
    /\ orgs = << >>
    /\ idx = 1
    /\ pc = "idle"
    /\ worker = [o \in OrgIds |-> "idle"]
    /\ future = "none"
    /\ response = "none"
    /\ raised = "none"
    /\ data = None
    /\ attempt = 0
    /\ log = << >>
    /\ outcome = [o \in OrgIds |-> "none"]
    /\ historical_metrics = << >>
    /\ \E n \in 0 .. NumOrgs, m \in Metrics :
         github_metrics = [ i \in 1 .. n |-> MetricsRow(i, OrgData(i, 0, m)) ]
    /\ MergeIdle
    /\ FetchIdle
    /\ ListIdle
    /\ MetricsIdle

MCur == m_orgs[m_idx]

\* fetch_all_merge_dates is called: it reads the slugs from github_metrics
MStartBatch ==
    /\ m_pc = "idle"
    /\ batches < MaxBatches
    /\ batches' = batches + 1
    /\ \E start_from_id \in 0 .. NumOrgs :
         LET ids == { i \in 1 .. Len(github_metrics) : start_from_id = 0 \/ i >= start_from_id }
             l == SortedSeq(ids)
         IN  /\ m_orgs' = [ k \in 1 .. Len(l) |-> github_metrics[l[k]].slug ]
             /\ m_pc' = IF ids = {} THEN "idle" ELSE "org"
    /\ m_idx' = 1
    /\ total_merges' = 0
    /\ UNCHANGED << repos, r_idx, page, pos, merged_prs, all_merged_prs, merge_dates, prev >>
    /\ UNCHANGED << uvars, github_metrics >>

\* "for slug, name in orgs" is exhausted: "Completed!"
MEndBatch ==
    /\ m_pc = "org"
    /\ m_idx > Len(m_orgs)
    /\ m_pc' = "idle"
    /\ UNCHANGED << batches, m_orgs, m_idx, repos, r_idx, page, pos, merged_prs,
                    all_merged_prs, total_merges, merge_dates, prev >>
    /\ UNCHANGED << uvars, github_metrics >>

\* fetch_merge_dates_for_organization starts: repos = fetch_org_repos(org_slug),
\* which returns the repositories, most starred first, or raises
MFetchRepos ==
    /\ m_pc = "org"
    /\ m_idx <= Len(m_orgs)
    /\ \/ \E S \in SUBSET RepoIds \ { {} } :
            /\ repos' = FirstN(SortedSeq(S), top_repos)
            /\ m_pc' = "get"
            /\ UNCHANGED m_idx
       \/ /\ repos' = << >>          \* "if not repos: return 0", or it raised
          /\ m_pc' = "org"
          /\ m_idx' = m_idx + 1
    /\ r_idx' = 1
    /\ page' = 1
    /\ pos' = 0
    /\ merged_prs' = << >>
    /\ all_merged_prs' = << >>
    /\ UNCHANGED << batches, m_orgs, total_merges, merge_dates, prev >>
    /\ UNCHANGED << uvars, github_metrics >>

\* fetch_merged_prs_for_repo returns result: all_merged_prs.extend, the next
\* repository, and after the last one "if not all_merged_prs: return 0"
ReturnFromRepo(result) ==
    LET all == all_merged_prs \o result
    IN  /\ all_merged_prs' = all
        /\ merged_prs' = << >>
        /\ page' = 1
        /\ pos' = 0
        /\ IF r_idx < Len(repos)
           THEN /\ r_idx' = r_idx + 1
                /\ m_pc' = "get"
                /\ UNCHANGED m_idx
           ELSE /\ r_idx' = 1
                /\ IF all = << >>
                   THEN m_pc' = "org" /\ m_idx' = m_idx + 1
                   ELSE m_pc' = "store" /\ UNCHANGED m_idx

\* one pass of "while page <= max_pages" up to "for pr in prs": the request,
\* the status checks and "if not prs"
MGet ==
    /\ m_pc = "get"
    /\ page <= max_pages
    /\ \/ ReturnFromRepo(merged_prs)          \* Timeout or another exception: break
       \/ /\ m_pc' = "sleep60"                \* 403
          /\ UNCHANGED << m_idx, r_idx, page, pos, merged_prs, all_merged_prs >>
       \/ ReturnFromRepo(<< >>)               \* 404, or another status but 200: return []
       \/ ReturnFromRepo(merged_prs)          \* 200, "if not prs: break"
       \/ /\ m_pc' = "prs"                    \* 200 and a page of pull requests
          /\ pos' = 0
          /\ UNCHANGED << m_idx, r_idx, page, merged_prs, all_merged_prs >>
    /\ UNCHANGED << batches, m_orgs, repos, total_merges, merge_dates, prev >>
    /\ UNCHANGED << uvars, github_metrics >>

\* the listing yields an event only while the bounds of the model have room
Room(event) ==
    /\ Len(all_merged_prs) + Len(merged_prs) < MaxEvents
    /\ Len(merge_dates)
         + Len(PendingRows(merge_dates, MCur, all_merged_prs \o Append(merged_prs, event)))
         <= MaxRows

\* "for pr in prs": the next pull request of the page
MNextPR ==
    /\ m_pc = "prs"
    /\ pos < MaxPageLen
    /\ \E pr \in PullRequests :
         LET todo == ProcessPR(pr)
         IN  IF todo = "return" THEN ReturnFromRepo(merged_prs)
             ELSE /\ pos' = pos + 1
                  /\ IF todo = "append"
                     THEN /\ Room(MergedPR(pr, repos[r_idx]))
                          /\ merged_prs' = Append(merged_prs, MergedPR(pr, repos[r_idx]))
                     ELSE UNCHANGED merged_prs
                  /\ UNCHANGED << m_pc, m_idx, r_idx, page, all_merged_prs >>
    /\ UNCHANGED << batches, m_orgs, repos, total_merges, merge_dates, prev >>
    /\ UNCHANGED << uvars, github_metrics >>

\* "for pr in prs" is exhausted: "next" in response.links, page += 1, and
\* "while page <= max_pages"; the listing has a next page while it has pages
MEndPage ==
    /\ m_pc = "prs"
    /\ pos >= 1
    /\ \/ ReturnFromRepo(merged_prs)          \* no next link: break
       \/ /\ page < MaxListPages
          /\ IF page + 1 <= max_pages
             THEN /\ page' = page + 1
                  /\ pos' = 0
                  /\ m_pc' = "get"
                  /\ UNCHANGED << m_idx, r_idx, merged_prs, all_merged_prs >>
             ELSE ReturnFromRepo(merged_prs)  \* the loop ends: return merged_prs
    /\ UNCHANGED << batches, m_orgs, repos, total_merges, merge_dates, prev >>
    /\ UNCHANGED << uvars, github_metrics >>

\* time.sleep(60) is over: "continue", with page as it was
MBackoff ==
    /\ m_pc = "sleep60"
    /\ m_pc' = "get"
    /\ UNCHANGED << batches, m_orgs, m_idx, repos, r_idx, page, pos, merged_prs,
                    all_merged_prs, total_merges, merge_dates, prev >>
    /\ UNCHANGED << uvars, github_metrics >>

\* "with SessionLocal() as session" of fetch_merge_dates_for_organization, and
\* "total_merges += count" or the except clause of fetch_all_merge_dates
MStore ==
    /\ m_pc = "store"
    /\ \E f \in StoreFaults(Len(PendingRows(merge_dates, MCur, all_merged_prs))) :
         LET s == StoreMergeDates(merge_dates, MCur, all_merged_prs, f)
         IN  /\ merge_dates' = s.table
             /\ total_merges' = total_merges + s.count
             /\ prev' = [slug |-> MCur, prs |-> all_merged_prs, end |-> s.end,
                         count |-> s.count,
                         before |-> IF prev.slug = MCur /\ prev.prs = all_merged_prs
                                    THEN prev.end ELSE "none"]
    /\ all_merged_prs' = << >>
    /\ m_idx' = m_idx + 1
    /\ m_pc' = "org"
    /\ UNCHANGED << batches, m_orgs, repos, r_idx, page, pos, merged_prs >>
    /\ UNCHANGED << uvars, github_metrics >>

MergeNext ==
    \/ MStartBatch
    \/ MEndBatch
    \/ MFetchRepos
    \/ MGet
    \/ MNextPR
    \/ MEndPage
    \/ MBackoff
    \/ MStore

SpecMerge == InitMerge /\ [][MergeNext]_vars

\* every step of the one thread of fetch_all_merge_dates is taken in the end
FairSpecMerge == SpecMerge /\ WF_vars(MergeNext)

\* ------------------------------------------------- the paginated fetchers
Services == { "fetch_org_repos", "fetch_repo_pr_data" }
Fetchers == Services \cup { "fetch_merged_prs_for_repo" }

\* a variant of the page limit that lets one more page through
PageCapOneMore(f) ==
    1 + (IF f = "fetch_org_repos" THEN repos_max_pages
         ELSE IF f = "fetch_repo_pr_data" THEN prs_max_pages
         ELSE max_pages)

\* max_pages of the three fetchers
PageCap(f) ==
    IF f = "fetch_org_repos" THEN repos_max_pages
    ELSE IF f = "fetch_repo_pr_data" THEN prs_max_pages
    ELSE max_pages

\* the lengths of the listings: short ones, and one at and one beyond the cap
Offers(f) == (0 .. MaxListPages) \cup { PageCap(f), PageCap(f) + 1 }

\* response.json() of page k of a listing of fetch_org_repos or
\* fetch_repo_pr_data: one repository with its star count, one pull request
\* with its merge time; a listing without pages answers with an empty page
PageItems(f, n, k) ==
    IF n = 0 THEN { << >> }
    ELSE IF f = "fetch_org_repos"
    THEN { << [name |-> k, stargazers_count |-> st] >> :
             st \in IF k <= MaxVaried THEN 0 .. MaxVaried ELSE { 0 } }
         \cup IF k <= MaxVaried THEN { << [name |-> k] >> } ELSE { }
    ELSE { << [number |-> k, merged_at |-> m] >> :
             m \in IF k <= MaxVaried THEN { Null, Iso(MaxInstant) } ELSE { Null } }

\* r.get("stargazers_count", 0)
Stars(r) == IF "stargazers_count" \in DOMAIN r THEN r.stargazers_count ELSE 0

\* a variant of the sort that leaves the list as it is
Unsorted(s) == s

\* sorted(repos, key=lambda r: r.get("stargazers_count", 0), reverse=True):
\* a stable sort, repositories of equal star count keep their order; the place
\* of an element is one more than the number of those that go before it
SortedByStars(s) ==
    LET place(i) ==
            1 + Cardinality({ j \in 1 .. Len(s) :
                    \/ Stars(s[j]) > Stars(s[i])
                    \/ j < i /\ Stars(s[j]) = Stars(s[i]) })
    IN  [k \in 1 .. Len(s) |-> s[CHOOSE i \in 1 .. Len(s) : place(i) = k]]

\* what the fetcher returns after its loop: fetch_org_repos sorts and keeps five
AfterLoop(f, a) ==
    IF f = "fetch_org_repos" THEN FirstN(SortedByStars(a), top_starred) ELSE a

\* the answer to a request is kept while fewer than MaxAnswers are
Heard(status) ==
    answers' = IF Len(answers) < MaxAnswers THEN Append(answers, status) ELSE answers

\* a variant of the 404 branch that hands the error to the caller
OnNotFoundRaises(a) == << "HTTPError" >>

\* "if response.status_code == 404: return []"
OnNotFound(a) == << >>

\* a variant of the 403 branch that goes on with the page after
AfterForbiddenSkips(u) == u + 1

\* "if response.status_code == 403: ... continue": the page to request is the
\* one that was just refused
AfterForbidden(u) == u

\* a variant of the except clauses that drops what was accumulated
OnTransportFailureEmpty(f, a) == << >>

\* "except requests.exceptions.Timeout: ... break" and the except clause after
\* it: the loop is left and the function returns as after its loop
OnTransportFailure(f, a) == AfterLoop(f, a)

\* a return statement: the value, and the way the call came to it
Return(value, why) ==
    /\ returned' = [value |-> value, why |-> why]
    /\ f_pc' = "returned"

\* one of the three fetchers is called, against a listing of the source
InitFetch ==
    /\ UpdateIdle
    /\ ListIdle
    /\ MetricsIdle
    /\ MergeIdle
    /\ fn \in Fetchers
    /\ offered \in Offers(fn)
    /\ f_pc = "loop"
    /\ url = IF fn \in Services THEN 1 ELSE 0
    /\ page_count = 0
    /\ w_page = 1
    /\ w_pos = 0
    /\ acc = << >>
    /\ returned = NotReturned
    /\ seen = << >>
    /\ answers = << >>

\* fetch_org_repos, fetch_repo_pr_data: one pass of "while url and page_count <
\* max_pages": page_count += 1, the request, the status checks, and extend
SRequest ==
    /\ f_pc = "loop"
    /\ fn \in Services
    /\ url # 0 /\ page_count < PageCap(fn)
    /\ page_count' = page_count + 1
    /\ \/ /\ Heard("timeout")                            \* Timeout: break
          /\ Return(OnTransportFailure(fn, acc), "timeout")
          /\ UNCHANGED << url, acc >>
       \/ /\ Heard("error")                              \* RequestException: break
          /\ Return(OnTransportFailure(fn, acc), "error")
          /\ UNCHANGED << url, acc >>
       \/ /\ Heard("403")                                \* 403: sleep, continue
          /\ f_pc' = "sleep60"
          /\ url' = AfterForbidden(url)
          /\ UNCHANGED << acc, returned >>
       \/ /\ Heard("404")                                \* 404: return []
          /\ Return(OnNotFound(acc), "404")
          /\ UNCHANGED << url, acc >>
       \/ /\ Heard("500")                                \* not 200: return []
          /\ Return(<< >>, "status")
          /\ UNCHANGED << url, acc >>
       \/ /\ Heard("200")                                \* 200: extend
          /\ \E items \in PageItems(fn, offered, url) :
               acc' = acc \o items
          /\ url' = IF url < offered THEN url + 1 ELSE 0 \* response.links.get("next")
          /\ UNCHANGED << f_pc, returned >>
    /\ UNCHANGED << fn, offered, w_page, w_pos, seen >>
    /\ UNCHANGED << ustate, mstate, github_metrics, pvars >>

\* fetch_org_repos, fetch_repo_pr_data: the loop ends, the list is returned
SLoopEnd ==
    /\ f_pc = "loop"
    /\ fn \in Services
    /\ ~(url # 0 /\ page_count < PageCap(fn))
    /\ Return(AfterLoop(fn, acc), IF url = 0 THEN "no_next" ELSE "cap")
    /\ UNCHANGED << fn, offered, url, page_count, w_page, w_pos, acc, seen, answers >>
    /\ UNCHANGED << ustate, mstate, github_metrics, pvars >>

\* fetch_merged_prs_for_repo: one pass of "while page <= max_pages" up to
\* "for pr in prs": the request, the status checks and "if not prs"
WGet ==
    /\ f_pc = "loop"
    /\ fn = "fetch_merged_prs_for_repo"
    /\ w_page <= max_pages
    /\ \/ /\ Heard("timeout")                            \* Timeout: break
          /\ Return(OnTransportFailure(fn, acc), "timeout")
          /\ UNCHANGED w_page
       \/ /\ Heard("error")                              \* another exception: break
          /\ Return(OnTransportFailure(fn, acc), "error")
          /\ UNCHANGED w_page
       \/ /\ Heard("403")                                \* 403: sleep, continue
          /\ f_pc' = "sleep60"
          /\ w_page' = AfterForbidden(w_page)
          /\ UNCHANGED returned
       \/ /\ Heard("404")                                \* 404: return []
          /\ Return(OnNotFound(acc), "404")
          /\ UNCHANGED w_page
       \/ /\ Heard("500")                                \* not 200: return []
          /\ Return(<< >>, "status")
          /\ UNCHANGED w_page
       \/ /\ offered = 0                                 \* 200, "if not prs: break"
          /\ Heard("200")
          /\ Return(acc, "empty")
          /\ UNCHANGED w_page
       \/ /\ offered > 0                                 \* 200 and a page of pull requests
          /\ Heard("200")
          /\ f_pc' = "prs"
          /\ UNCHANGED << returned, w_page >>
    /\ UNCHANGED << fn, offered, url, page_count, w_pos, acc, seen >>
    /\ UNCHANGED << ustate, mstate, github_metrics, pvars >>

\* the entries the listing may deliver next: while fewer than MaxSeen have been
\* gone through a pull request that is not merged, one whose merge time does
\* not parse, one merged just before the cutoff, or one merged at the cutoff;
\* then pull requests that are not merged
Deliverable ==
    IF Len(seen) < MaxSeen
    THEN [number : { 1 }, merged_at : { Null, Unparsable, Iso(cutoff_date - 1) }]
            \cup [number : 1 .. MaxPRNum, merged_at : { Iso(cutoff_date) }]
    ELSE { [number |-> 1, merged_at |-> Null] }

\* fetch_merged_prs_for_repo, "for pr in prs": the next pull request of the page
WNextPR ==
    /\ f_pc = "prs"
    /\ w_pos < MaxPageLen
    /\ \E pr \in Deliverable :
         LET todo == ProcessPR(pr)
         IN  /\ seen' = IF Len(seen) < MaxSeen THEN Append(seen, pr) ELSE seen
             /\ IF todo = "return"
                THEN /\ Return(acc, "cutoff")
                     /\ UNCHANGED << w_pos, acc >>
                ELSE /\ w_pos' = w_pos + 1
                     /\ acc' = IF todo = "append"
                               THEN Append(acc, MergedPR(pr, 1)) ELSE acc
                     /\ UNCHANGED << f_pc, returned >>
    /\ UNCHANGED << fn, offered, url, page_count, w_page, answers >>
    /\ UNCHANGED << ustate, mstate, github_metrics, pvars >>

\* fetch_merged_prs_for_repo: "for pr in prs" is exhausted; without a next link
\* break, else page += 1
WEndPage ==
    /\ f_pc = "prs"
    /\ w_pos >= 1
    /\ IF w_page < offered
       THEN /\ w_page' = w_page + 1
            /\ f_pc' = "loop"
            /\ UNCHANGED returned
       ELSE /\ Return(acc, "no_next")
            /\ UNCHANGED w_page
    /\ w_pos' = 0
    /\ UNCHANGED << fn, offered, url, page_count, acc, seen, answers >>
    /\ UNCHANGED << ustate, mstate, github_metrics, pvars >>

\* fetch_merged_prs_for_repo: "while page <= max_pages" ends, return merged_prs
WLoopEnd ==
    /\ f_pc = "loop"
    /\ fn = "fetch_merged_prs_for_repo"
    /\ w_page > max_pages
    /\ Return(acc, "cap")
    /\ UNCHANGED << fn, offered, url, page_count, w_page, w_pos, acc, seen, answers >>
    /\ UNCHANGED << ustate, mstate, github_metrics, pvars >>

\* time.sleep(60) is over: "continue"
FBackoff ==
    /\ f_pc = "sleep60"
    /\ f_pc' = "loop"
    /\ UNCHANGED << fn, offered, url, page_count, w_page, w_pos, acc, returned, seen, answers >>
    /\ UNCHANGED << ustate, mstate, github_metrics, pvars >>

FetchNext ==
    \/ SRequest
    \/ SLoopEnd
    \/ WGet
    \/ WNextPR
    \/ WEndPage
    \/ WLoopEnd
    \/ FBackoff

SpecFetch == InitFetch /\ [][FetchNext]_vars

\* every step of the one thread of the fetcher is taken in the end
FairSpecFetch == SpecFetch /\ WF_vars(FetchNext)

\* ------------------------------------------------------------------ strings
UpperCase == << "A", "B", "C", "D", "E", "F", "G", "H", "I", "J", "K", "L", "M",
                "N", "O", "P", "Q", "R", "S", "T", "U", "V", "W", "X", "Y", "Z" >>
LowerCase == << "a", "b", "c", "d", "e", "f", "g", "h", "i", "j", "k", "l", "m",
                "n", "o", "p", "q", "r", "s", "t", "u", "v", "w", "x", "y", "z" >>
Letters == Range(UpperCase) \cup Range(LowerCase)
DigitChars == { "0", "1", "2", "3", "4", "5", "6", "7", "8", "9" }

\* str.strip() without an argument removes these
Whitespace == { " ", "\t", "\n", "\r" }

\* bool(s) of a str or None
Truthy(s) == s # NoneStr /\ s # << >>

\* str.lower()
LowerChar(c) ==
    IF c \in Range(UpperCase)
    THEN LowerCase[CHOOSE i \in 1 .. Len(UpperCase) : UpperCase[i] = c]
    ELSE c

StrLower(s) == [i \in 1 .. Len(s) |-> LowerChar(s[i])]

\* the position of the first character of s that is in cs, 0 without one
Find(s, cs) ==
    IF \E i \in 1 .. Len(s) : s[i] \in cs
    THEN CHOOSE i \in 1 .. Len(s) :
             s[i] \in cs /\ \A j \in 1 .. i - 1 : s[j] \notin cs
    ELSE 0

\* s[i-1:] and s[:i-1] of Python, i counting from 1
From(s, i) == SubSeq(s, i, Len(s))
Before(s, i) == SubSeq(s, 1, i - 1)

\* sub in s
Contains(s, sub) ==
    \E i \in 0 .. Len(s) - Len(sub) : SubSeq(s, i + 1, i + Len(sub)) = sub

\* s.endswith(suffix)
EndsWith(s, suffix) ==
    /\ Len(s) >= Len(suffix)
    /\ SubSeq(s, Len(s) - Len(suffix) + 1, Len(s)) = suffix

\* s.lstrip(cs), s.rstrip(cs), s.strip(cs)
RECURSIVE LStrip(_, _)
LStrip(s, cs) ==
    IF s # << >> /\ s[1] \in cs THEN LStrip(Tail(s), cs) ELSE s

RECURSIVE RStrip(_, _)
RStrip(s, cs) ==
    IF s # << >> /\ s[Len(s)] \in cs THEN RStrip(Before(s, Len(s)), cs) ELSE s

Strip(s, cs) == RStrip(LStrip(s, cs), cs)

\* s.split(sep) for a separator of one character
RECURSIVE Split(_, _)
Split(s, sep) ==
    LET i == Find(s, { sep })
    IN  IF i = 0 THEN << s >>
        ELSE << Before(s, i) >> \o Split(From(s, i + 1), sep)

\* s.replace(a, b) for strings a and b of one character
Replace(s, a, b) == [i \in 1 .. Len(s) |-> IF s[i] = a THEN b ELSE s[i]]

\* the literals of the two functions
github_com == << "g", "i", "t", "h", "u", "b", ".", "c", "o", "m" >>
orgs_marker == << "o", "r", "g", "s" >>
dot_git == << ".", "g", "i", "t" >>

\* urllib.parse.urlparse, its netloc and its path: the scheme is what stands
\* before the first colon if that is a letter followed by letters, digits, "+",
\* "-" and "."; a netloc follows only after "//" and ends before the next "/",
\* "?" or "#"; the path ends before the fragment and the query
urlparse(u) ==
    LET colon == Find(u, { ":" })
        has_scheme == /\ colon > 1
                      /\ u[1] \in Letters
                      /\ \A i \in 1 .. colon - 1 :
                            u[i] \in Letters \cup DigitChars \cup { "+", "-", "." }
        rest == IF has_scheme THEN From(u, colon + 1) ELSE u
        has_netloc == Len(rest) >= 2 /\ SubSeq(rest, 1, 2) = << "/", "/" >>
        after == From(rest, 3)
        delim == Find(after, { "/", "?", "#" })
        tail == IF ~has_netloc THEN rest
                ELSE IF delim = 0 THEN << >> ELSE From(after, delim)
        Cut(t, c) == IF Find(t, { c }) = 0 THEN t ELSE Before(t, Find(t, { c }))
    IN  [netloc |-> IF ~has_netloc THEN << >>
                    ELSE IF delim = 0 THEN after ELSE Before(after, delim),
         path |-> Cut(Cut(tail, "#"), "?")]

\* extract_org_name_from_url
extract_org_name_from_url(u) ==
    IF ~Truthy(u) THEN NoneStr
    ELSE LET parsed == urlparse(u)
             path_parts == SelectSeq(Split(Strip(parsed.path, { "/" }), "/"),
                                     LAMBDA part : part # << >>)
             host == StrLower(parsed.netloc)
         IN  IF path_parts = << >> THEN NoneStr
             ELSE IF ~Contains(host, github_com) THEN path_parts[Len(path_parts)]
             ELSE IF StrLower(path_parts[1]) = orgs_marker /\ Len(path_parts) >= 2
                  THEN path_parts[2]
             ELSE path_parts[1]

\* get_organization_list, lines 37-40: the handle taken from the slug
FromSlug(slug) ==
    LET candidate == Split(Strip(Strip(slug, Whitespace), { "/" }), "/")
    IN  candidate[Len(candidate)]

\* get_organization_list, lines 42-45: the post-processing of the handle
PostProcess(s) ==
    LET t == StrLower(Replace(LStrip(s, { "@" }), " ", "-"))
    IN  IF EndsWith(t, dot_git) THEN Before(t, Len(t) - Len(dot_git) + 1) ELSE t

\* ------------------------------------------------- get_organization_list
\* the profile URLs of the records: with or without a scheme, on one of five
\* hosts, with up to MaxSegments path segments
Https == << "h", "t", "t", "p", "s", ":", "/", "/" >>
Schemes == { << >>, Https }
Hosts ==
    { github_com,
      << "w", "w", "w", "." >> \o github_com,
      << "G", "i", "t", "H", "u", "b", ".", "c", "o", "m" >>,
      << "g", "i", "t", "l", "a", "b", ".", "c", "o", "m" >>,
      github_com \o << "m", "u", "n", "i", "t", "y" >> }
Segments == { orgs_marker, << "x" >>, << "@", "Y", ".", "g", "i", "t" >> }
SegLists == UNION { [1 .. n -> Segments] : n \in 0 .. MaxSegments }

RECURSIVE Join(_)
Join(segs) ==
    IF segs = << >> THEN << >> ELSE << "/" >> \o Head(segs) \o Join(Tail(segs))

MakeUrl(sch, h, segs) == sch \o h \o Join(segs)

\* no URL, the empty one, every host after the scheme, and the expected host
\* written without a scheme
Urls ==
    { NoneStr, << >> }
        \cup { MakeUrl(Https, h, segs) : h \in Hosts, segs \in SegLists }
        \cup { MakeUrl(sch, github_com, segs) : sch \in Schemes, segs \in SegLists }

\* the slugs of the records
Slugs ==
    { NoneStr,
      << "x" >>,
      << "@", "X" >>,
      << "a", " ", "b" >>,
      << "y", ".", "g", "i", "t" >>,
      << "y", ".", "g", "i", "t", ".", "g", "i", "t" >>,
      dot_git,
      << " ", "/", "o", "/", "z", "/" >> }

\* the records of the query, as << github_url, slug >>: every URL without a
\* slug, and every slug beside a URL that is absent, that has no path, or that
\* has one
Inputs ==
    (Urls \X { NoneStr })
        \cup ({ NoneStr, Https \o github_com, Https \o github_com \o << "/", "x" >> } \X Slugs)

\* a variant of the query that does not filter by start_from_id
NoQueryFilter(id, k) == TRUE

\* "if start_from_id is not None: query.filter(GSoCOrganization.id >= start_from_id)"
QueryFilter(id, k) == \A x \in k : id >= x

\* a variant of the check for a duplicate that finds none
NeverSeen(h, s) == FALSE

\* "if github_slug in seen_slugs"
AlreadySeen(h, s) == h \in s

\* [org for org in ... if org["id"] >= start_from_id]
FromId(list, k) == SelectSeq(list, LAMBDA org : \A x \in k : org.id >= x)

\* update_github_data(start_from_id) calls get_organization_list(start_from_id):
\* no id is given, or one from 0 on
InitList ==
    /\ UpdateIdle
    /\ MergeIdle
    /\ FetchIdle
    /\ MetricsIdle
    /\ n_pc = "for"
    /\ org_id = 0
    /\ github_url = NoneStr
    /\ n_slug = NoneStr
    /\ github_slug = NoneStr
    /\ normalized_orgs = << >>
    /\ seen_slugs = { }
    /\ skipped_without_identifier = 0
    /\ n_start_from_id \in { { } } \cup { { k } : k \in 0 .. MaxRecords }
    /\ yielded = << >>
    /\ u_orgs = << >>

\* "for org_id, name, github_url, slug in orgs" binds the next record of the
\* query, which orders by id and filters by start_from_id, and
\* github_slug = extract_org_name_from_url(github_url) if github_url else None
NExtract ==
    /\ n_pc = "for"
    /\ \E id \in org_id + 1 .. MaxRecords :
         /\ QueryFilter(id, n_start_from_id)
         /\ org_id' = id
    /\ \E rec \in Inputs :
         /\ github_url' = rec[1]
         /\ n_slug' = rec[2]
         /\ github_slug' = IF Truthy(rec[1])
                           THEN extract_org_name_from_url(rec[1]) ELSE NoneStr
    /\ n_pc' = "extracted"
    /\ UNCHANGED << normalized_orgs, seen_slugs, skipped_without_identifier,
                    n_start_from_id, yielded, u_orgs >>
    /\ UNCHANGED << ustate, mstate, github_metrics, fvars, cvars >>

\* the rest of the loop body: the handle from the slug, the post-processing,
\* the two "continue" and the append; the variables of the record are not read
\* again before the next record binds them
NNormalize ==
    /\ n_pc = "extracted"
    /\ LET taken == IF ~Truthy(github_slug) /\ Truthy(n_slug)
                    THEN FromSlug(n_slug) ELSE github_slug
           handle == IF Truthy(taken) THEN PostProcess(taken) ELSE taken
       IN  /\ yielded' = Append(yielded, [id |-> org_id, github_slug |-> handle])
           /\ IF ~Truthy(handle)
              THEN /\ skipped_without_identifier' = skipped_without_identifier + 1
                   /\ UNCHANGED << normalized_orgs, seen_slugs >>
              ELSE IF AlreadySeen(handle, seen_slugs)
              THEN UNCHANGED << normalized_orgs, seen_slugs, skipped_without_identifier >>
              ELSE /\ seen_slugs' = seen_slugs \cup { handle }
                   /\ normalized_orgs' =
                          Append(normalized_orgs, [id |-> org_id, github_slug |-> handle])
                   /\ UNCHANGED skipped_without_identifier
    /\ github_url' = NoneStr
    /\ n_slug' = NoneStr
    /\ github_slug' = NoneStr
    /\ n_pc' = "for"
    /\ UNCHANGED << org_id, n_start_from_id, u_orgs >>
    /\ UNCHANGED << ustate, mstate, github_metrics, fvars, cvars >>

\* the records are exhausted: the filter after the normalization, and
\* "return normalized_orgs"
NReturn ==
    /\ n_pc = "for"
    /\ normalized_orgs' = IF n_start_from_id # { }
                          THEN FromId(normalized_orgs, n_start_from_id)
                          ELSE normalized_orgs
    /\ n_pc' = "returned"
    /\ UNCHANGED << org_id, github_url, n_slug, github_slug, seen_slugs,
                    skipped_without_identifier, n_start_from_id, yielded, u_orgs >>
    /\ UNCHANGED << ustate, mstate, github_metrics, fvars, cvars >>

\* update_github_data, lines 18-26: orgs = get_organization_list(...), and
\* "if start_from_id:" the filter on it; "for org in orgs" goes through the rest
UFilter ==
    /\ n_pc = "returned"
    /\ u_orgs' = IF n_start_from_id \notin { { }, { 0 } }
                 THEN FromId(normalized_orgs, n_start_from_id)
                 ELSE normalized_orgs
    /\ n_pc' = "for_org"
    /\ UNCHANGED << org_id, github_url, n_slug, github_slug, normalized_orgs,
                    seen_slugs, skipped_without_identifier, n_start_from_id, yielded >>
    /\ UNCHANGED << ustate, mstate, github_metrics, fvars, cvars >>

ListNext ==
    \/ NExtract
    \/ NNormalize
    \/ NReturn
    \/ UFilter

SpecList == InitList /\ [][ListNext]_vars

\* --------------------------------------------------------- calculate_metrics
\* the lists fetch_repo_pr_data may return: pull requests merged or not
PrLists == UNION { [1 .. n -> { [merged_at |-> Null], [merged_at |-> Iso(0)] }] : n \in 0 .. MaxFetched }

\* a variant of round that cuts the further digits off
RoundDown(num, den, digits) == (num * 10 ^ digits) \div den

\* round(num / den, digits) for den > 0, in units of 10 ^ -digits: the nearest
\* multiple, the even one of two that are equally near (the quotients that lie
\* half way have a power of two as denominator and are floats exactly)
Round(num, den, digits) ==
    LET q == (num * 10 ^ digits) \div den
        r == (num * 10 ^ digits) % den
    IN  IF 2 * r < den THEN q
        ELSE IF 2 * r > den THEN q + 1
        ELSE IF q % 2 = 0 THEN q ELSE q + 1

\* a variant of merge_frequency that takes the share of the unmerged
merge_frequency_unmerged(merged, total) ==
    IF total > 0 THEN Round(total - merged, total, ndigits) ELSE Round(0, 1, ndigits)

\* merge_frequency of calculate_metrics, rounded, in thousandths
merge_frequency(merged, total) ==
    IF total > 0 THEN Round(merged, total, ndigits) ELSE Round(0, 1, ndigits)

InitMetrics ==
    /\ UpdateIdle
    /\ MergeIdle
    /\ FetchIdle
    /\ ListIdle
    /\ c_pc = "for"
    /\ c_left \in 0 .. MaxMetricRepos
    /\ c_prs = << >>
    /\ c_total_prs = 0
    /\ c_merged_prs = 0
    /\ c_result = [total_prs |-> 0, merged_prs |-> 0, merge_frequency |-> 0]

\* "for repo in repos": prs = fetch_repo_pr_data(...), the two sums
CRepo ==
    /\ c_pc = "for"
    /\ c_left > 0
    /\ \E fetched \in PrLists :
         /\ c_prs' = fetched
         /\ c_total_prs' = c_total_prs + Len(fetched)
         /\ c_merged_prs' = c_merged_prs
              + Cardinality({ i \in 1 .. Len(fetched) : fetched[i].merged_at # Null })
    /\ c_left' = c_left - 1
    /\ UNCHANGED << c_pc, c_result >>
    /\ UNCHANGED << ustate, mstate, github_metrics, fvars, nvars >>

\* the loop is over: merge_frequency, in thousandths, and the return
CReturn ==
    /\ c_pc = "for"
    /\ c_left = 0
    /\ c_result' =
           [total_prs |-> c_total_prs, merged_prs |-> c_merged_prs,
            merge_frequency |-> merge_frequency(c_merged_prs, c_total_prs)]
    /\ c_pc' = "returned"
    /\ UNCHANGED << c_left, c_prs, c_total_prs, c_merged_prs >>
    /\ UNCHANGED << ustate, mstate, github_metrics, fvars, nvars >>

MetricsNext ==
    \/ CRepo
    \/ CReturn

SpecMetrics == InitMetrics /\ [][MetricsNext]_vars

\* ------------------------------------------------------------------ claims
RunningWorkers == { o \in OrgIds : worker[o] = "running" }

\* rows of historical_metrics written for organization o at time t
Observations(o, t) ==
    { i \in 1 .. Len(historical_metrics) :
        /\ historical_metrics[i].organization_slug = o
        /\ historical_metrics[i].recorded_at = t }

\* the organization the for loop has just left
Last == orgs[idx - 1]
AfterOrg == pc = "loop" /\ idx > 1

\* C4: when future.result times out, the organization is skipped at once: the
\* step that leaves the with block and goes to the next organization can be
\* taken, whether the fetch is still running or not.
C4_TimeoutSkipsWithoutWaiting ==
    (pc = "exit" /\ raised = "TimeoutError") => ENABLED ExecutorExit

\* C5: at every moment at most one fetch worker is running.
C5_OneFetchWorker == Cardinality(RunningWorkers) <= 1

\* C5 witness: the fetch of a later organization is running after the fetch of
\* an earlier organization of the same run timed out.
C5_Witness ==
    \E o, p \in OrgIds : o < p /\ outcome[o] = "skip_timeout" /\ worker[p] = "running"

\* C6: every step changes the committed tables in both of its writes (the
\* snapshot upsert and the new historical row) or in neither.
C6_PersistAtomic ==
    [][ /\ (github_metrics' # github_metrics) <=> (historical_metrics' # historical_metrics)
        /\ historical_metrics' # historical_metrics =>
             /\ historical_metrics' = AddHistorical(historical_metrics, Cur, data, run)
             /\ github_metrics' = UpsertSnapshot(github_metrics, Cur, data) ]_vars

\* C6 witness: in one run the persist of an organization failed on every attempt
\* and left no row of this run, and the persist of the next one succeeded after
\* a failed attempt and left both rows.
C6_Witness ==
    /\ AfterOrg
    /\ outcome[Last] = "done" /\ Len(log) > 1 /\ Observations(Last, run) # {}
    /\ Existing(github_metrics, Last) # 0
    /\ github_metrics[Existing(github_metrics, Last)].fetched_at = run
    /\ \E o \in OrgIds : outcome[o] = "failed" /\ Observations(o, run) = {}

\* C7: at most 3 attempts; every attempt but the last one ended in an
\* OperationalError; the step ends done exactly on a successful attempt, failed
\* exactly on three OperationalErrors, and on the first other error.
C7_RetryPolicy ==
    LET n == Len(log)
    IN  /\ n <= retries
        /\ \A k \in 1 .. n - 1 : log[k] = "OperationalError"
        /\ pc = "persist" => (n = attempt /\ n < retries /\ \A k \in 1 .. n : log[k] = "OperationalError")
        /\ AfterOrg =>
             /\ outcome[Last] = "done" <=> (n > 0 /\ log[n] = "ok")
             /\ outcome[Last] = "aborted" <=> (n > 0 /\ log[n] = "Exception")
             /\ outcome[Last] = "failed" <=>
                  (n = retries /\ \A k \in 1 .. n : log[k] = "OperationalError")
             /\ outcome[Last] \in Skips <=> n = 0

\* C7 witness: three connectivity errors ended an organization as failed.
C7_Witness ==
    AfterOrg /\ outcome[Last] = "failed" /\ Len(log) = retries

\* C8: a run appends exactly one historical row for an organization whose
\* persist reached done, and none for any other organization.
C8_OneObservationPerDone ==
    \A o \in OrgIds :
        Cardinality(Observations(o, run)) = IF outcome[o] = "done" THEN 1 ELSE 0

\* C8 witness: in one run an organization is done after a retry, and another
\* one was skipped or failed.
C8_Witness ==
    /\ AfterOrg
    /\ outcome[Last] = "done" /\ Len(log) > 1
    /\ \E p \in OrgIds : outcome[p] \in Skips \cup { "failed", "aborted" }

\* C9: github_metrics holds at most one row per handle; a successful persist
\* rewrites the row of the handle in place when there is one, and appends a row
\* only when there is none.
C9_OneRowPerHandle ==
    /\ UniqueSlug(github_metrics)
    /\ [][ UniqueSlug(github_metrics') ]_vars
    /\ [][ github_metrics' # github_metrics =>
             LET i == Existing(github_metrics, Cur)
             IN  IF i # 0
                 THEN github_metrics' = [github_metrics EXCEPT ![i] = MetricsRow(Cur, data)]
                 ELSE github_metrics' = Append(github_metrics, MetricsRow(Cur, data)) ]_vars
    /\ [][ (pc = "persist" /\ outcome'[Cur] = "done") =>
             /\ Existing(github_metrics', Cur) # 0
             /\ github_metrics'[Existing(github_metrics', Cur)] = MetricsRow(Cur, data)
             /\ Len(github_metrics') =
                  Len(github_metrics) + IF Existing(github_metrics, Cur) # 0 THEN 0 ELSE 1 ]_vars

\* C9 witness: a second run has rewritten the row an earlier run inserted.
C9_Witness ==
    \E o \in OrgIds :
        /\ outcome[o] = "done" /\ run > 1
        /\ \E t \in 1 .. run - 1 : Observations(o, t) # {}
        /\ github_metrics[Existing(github_metrics, o)].fetched_at = run

\* C10: every step leaves the rows of historical_metrics that existed before
\* it where and as they were.
C10_AppendOnly ==
    [][ /\ Len(historical_metrics') >= Len(historical_metrics)
        /\ SubSeq(historical_metrics', 1, Len(historical_metrics)) = historical_metrics ]_vars

\* C10 witness: a later run has appended a row behind the row of an earlier run
\* for the same organization.
C10_Witness ==
    \E i, j \in 1 .. Len(historical_metrics) :
        /\ i < j
        /\ historical_metrics[i].organization_slug = historical_metrics[j].organization_slug
        /\ historical_metrics[i].recorded_at < historical_metrics[j].recorded_at

\* ------------------------------------------------- claims on the whole run
\* rows of github_metrics written in run t
Snapshots(t) == { i \in 1 .. Len(github_metrics) : github_metrics[i].fetched_at = t }

\* the organizations of the run that ended with outcome w
Ended(w) == { i \in 1 .. Len(orgs) : outcome[orgs[i]] = w }

\* a finished run over three organizations: one timed out, one was persisted,
\* one had no data
ThreeWays ==
    /\ pc = "idle" /\ run >= 1 /\ Len(orgs) = 3
    /\ Cardinality(Ended("skip_timeout")) = 1
    /\ Cardinality(Ended("done")) = 1
    /\ Cardinality(Ended("skip_nodata")) = 1

\* C11: a run over three organizations of which one timed out, one succeeded
\* and one had no data ends having written exactly one github_metrics row and
\* exactly one historical_metrics row, both of the succeeding organization,
\* wherever in the list the three stand.
C11_EndToEnd ==
    ThreeWays =>
        \E k \in Ended("done") :
            /\ Cardinality(Snapshots(run)) = 1
            /\ \A i \in Snapshots(run) : github_metrics[i].slug = orgs[k]
            /\ Cardinality(Observations(orgs[k], run)) = 1
            /\ \A o \in OrgIds \ { orgs[k] } : Observations(o, run) = {}

\* C11 witness: such a run has ended, the organization without data first, the
\* timed-out one second, the succeeding one last, and its two rows are there.
C11_Witness ==
    /\ ThreeWays
    /\ outcome[orgs[1]] = "skip_nodata"
    /\ outcome[orgs[2]] = "skip_timeout"
    /\ outcome[orgs[3]] = "done"
    /\ Cardinality(Snapshots(run)) = 1
    /\ Cardinality(Observations(orgs[3], run)) = 1

\* ---------------------------------------------- claims on the merge events
\* the natural keys of the events of a fetched list
ListKeys(slug, prs) == { NaturalKey(MergeDateRow(slug, prs[i])) : i \in 1 .. Len(prs) }

\* C1: merge_dates holds at most one row per natural key (organization handle,
\* merge date, pull-request number, repository name), whatever lists were
\* fetched, a list with the same pull request twice included.
C1_NaturalKeyUnique ==
    \A i, j \in 1 .. Len(merge_dates) :
        NaturalKey(merge_dates[i]) = NaturalKey(merge_dates[j]) => i = j

C3_BatchReachesEnd == (m_pc # "idle") ~> (m_pc = "idle")

\* ------------------------------------------- claims on the paginated fetchers
\* the call has made exactly one request
OneRequest ==
    /\ Len(answers) = 1
    /\ IF fn \in Services THEN page_count = 1 ELSE w_page = 1

\* C12: a call whose first request is answered 404 returns the empty list, does
\* not raise, and makes no further request, in each of the three fetchers.
C12_NotFoundOnFirstPage ==
    (returned.why = "404" /\ OneRequest) =>
        /\ returned.value = << >>
        /\ f_pc = "returned"
        /\ ~ENABLED FetchNext

\* C12 witness: fetch_merged_prs_for_repo has returned on a 404 to its first
\* request, against a listing that has pages.
C12_Witness ==
    /\ fn = "fetch_merged_prs_for_repo" /\ offered > 0
    /\ f_pc = "returned" /\ returned.why = "404" /\ OneRequest

\* the events fetch_merged_prs_for_repo is to record from the entries of a
\* listing: those merged at or after the cutoff, in their order, up to the
\* first entry merged before the cutoff
RECURSIVE Extract(_)
Extract(entries) ==
    IF entries = << >> THEN << >>
    ELSE LET todo == ProcessPR(Head(entries))
         IN  IF todo = "return" THEN << >>
             ELSE IF todo = "append"
             THEN << MergedPR(Head(entries), 1) >> \o Extract(Tail(entries))
             ELSE Extract(Tail(entries))

\* the source has answered 403 and then 200 to the request for the one page
RefusedOnce == f_pc = "returned" /\ offered = 1 /\ answers = << "403", "200" >>

TransportFailure == f_pc = "returned" /\ returned.why \in { "timeout", "error" }

\* the list holds what the pages 1 .. k-1 delivered, k being the page whose
\* request failed
AccumulatedBefore ==
    IF fn \in Services
    THEN /\ Len(acc) = url - 1
         /\ \A i \in 1 .. Len(acc) : << acc[i] >> \in PageItems(fn, offered, i)
    ELSE acc = Extract(seen)

\* C14 as stated: a call that ends on a timeout or a connection error returns
\* the items accumulated from the pages before the one that failed, all of them.
C14_FailureReturnsAccumulated ==
    TransportFailure =>
        /\ AccumulatedBefore
        /\ Range(returned.value) = Range(acc)
        /\ Len(returned.value) = Len(acc)

\* C14 amended: such a call returns a list and makes no further request;
\* fetch_repo_pr_data and fetch_merged_prs_for_repo return the items accumulated
\* from the pages before the one that failed, fetch_org_repos returns at most
\* five of them, none with fewer stars than one it leaves out.
C14_FailureReturnsPartial ==
    TransportFailure =>
        /\ AccumulatedBefore
        /\ ~ENABLED FetchNext
        /\ IF fn = "fetch_org_repos"
           THEN /\ Range(returned.value) \subseteq Range(acc)
                /\ Len(returned.value) = IF Len(acc) < top_starred THEN Len(acc) ELSE top_starred
                /\ Cardinality(Range(returned.value)) = Len(returned.value)
                /\ \A x \in Range(returned.value), y \in Range(acc) \ Range(returned.value) :
                       Stars(x) >= Stars(y)
           ELSE returned.value = acc

\* C14 witness: fetch_org_repos has timed out on page 7 and returns five of the
\* six repositories of the pages before; fetch_merged_prs_for_repo does so on a
\* later page with an event recorded (the second state is not this one).
C14_Witness ==
    /\ TransportFailure /\ returned.why = "timeout"
    /\ fn = "fetch_org_repos" /\ url = 7
    /\ Len(acc) = 6 /\ Len(returned.value) = 5

\* a pull request merged before the cutoff
Old(pr) == pr.merged_at \notin { Null, Unparsable } /\ pr.merged_at.t < cutoff_date

\* every merge time of the entries parses
Parsable(entries) == \A i \in 1 .. Len(entries) : entries[i].merged_at # Unparsable

\* the merged pull requests of the entries, in their order, as events
MergedOf(entries) ==
    LET m == SelectSeq(entries, LAMBDA pr : pr.merged_at # Null)
    IN  [i \in 1 .. Len(m) |-> MergedPR(m[i], 1)]

\* C15: in fetch_merged_prs_for_repo a pull request merged before the cutoff is
\* the last entry gone through: the call has returned at it, with exactly the
\* merged pull requests before it, in their order, and no step (no entry, no
\* request for a page) follows; every event accumulated or returned has a merge
\* time at or after the cutoff.
C15_StopsAtFirstOld ==
    /\ \A i \in 1 .. Len(seen) :
          Old(seen[i]) =>
              /\ i = Len(seen)
              /\ f_pc = "returned" /\ returned.why = "cutoff"
              /\ Parsable(seen) => returned.value = MergedOf(SubSeq(seen, 1, i - 1))
              /\ ~ENABLED FetchNext
    /\ \A i \in 1 .. Len(acc) :
          fn = "fetch_merged_prs_for_repo" => acc[i].merged_at >= cutoff_date
    /\ \A i \in 1 .. Len(returned.value) :
          fn = "fetch_merged_prs_for_repo" => returned.value[i].merged_at >= cutoff_date

\* C15 witness: the third entry is the first one merged before the cutoff, on
\* the second page, and the call has returned the first two.
C15_Witness ==
    /\ fn = "fetch_merged_prs_for_repo" /\ f_pc = "returned"
    /\ Len(seen) = 3 /\ Old(seen[3]) /\ w_page = 2 /\ offered > 2
    /\ Len(returned.value) = 2
    /\ returned.value[1].number # returned.value[2].number

\* a host that is the expected domain or lies under it
OnExpectedHost(h) ==
    \/ StrLower(h) = github_com
    \/ EndsWith(StrLower(h), << "." >> \o github_com)

\* C16: for a profile URL with a scheme, extract_org_name_from_url returns x
\* when the URL is on the expected host and its path is /orgs/x/..., the first
\* path segment when it is on the expected host without the /orgs marker, and
\* the last path segment when it is on any other host.
C16_HandleFromUrl ==
    n_pc = "extracted" =>
        \A h \in Hosts, segs \in SegLists :
            (github_url = MakeUrl(Https, h, segs) /\ segs # << >>) =>
                IF ~OnExpectedHost(h) THEN github_slug = segs[Len(segs)]
                ELSE IF segs[1] = orgs_marker
                THEN Len(segs) >= 2 => github_slug = segs[2]
                ELSE github_slug = segs[1]

\* the handles get_organization_list has put out
Handles == { normalized_orgs[i].github_slug : i \in 1 .. Len(normalized_orgs) }

\* C17: every handle get_organization_list puts out is non-empty, lowercase,
\* without a leading "@", without a space, and does not end with ".git".
C17_HandleCanonical ==
    \A h \in Handles :
        /\ h # << >> /\ h # NoneStr
        /\ h = StrLower(h)
        /\ h[1] # "@"
        /\ " " \notin Range(h)
        /\ ~EndsWith(h, dot_git)

\* the pull requests of a list that have a merge timestamp
MergedCount(fetched) ==
    Cardinality({ i \in 1 .. Len(fetched) : fetched[i].merged_at # Null })

\* C18: total_prs and merged_prs grow with every repository by the number of
\* its fetched pull requests and by the number of those with a merge timestamp;
\* calculate_metrics returns these sums and a merge_frequency that is 0 when
\* total_prs is 0 and otherwise a multiple of 0.001 nearest to
\* merged_prs / total_prs.
C18_MergeFrequency ==
    /\ [][c_left' # c_left =>
             /\ c_total_prs' = c_total_prs + Len(c_prs')
             /\ c_merged_prs' = c_merged_prs + MergedCount(c_prs')]_vars
    /\ [](c_pc = "returned" =>
             /\ c_result.total_prs = c_total_prs
             /\ c_result.merged_prs = c_merged_prs
             /\ c_result.merge_frequency \in 0 .. 1000
             /\ IF c_total_prs = 0 THEN c_result.merge_frequency = 0
                ELSE LET d == c_result.merge_frequency * c_total_prs
                              - 1000 * c_merged_prs
                     IN  2 * d <= c_total_prs /\ 2 * (0 - d) <= c_total_prs)

\* C18 witness: two of three pull requests are merged and calculate_metrics has
\* returned 0.667.
C18_Witness ==
    /\ c_pc = "returned"
    /\ c_result.total_prs = 3 /\ c_result.merged_prs = 2
    /\ c_result.merge_frequency = 667

\* C19: every call of a paginated fetcher returns in the end, whatever the source
\* answers, also when it answers 403 to every request.
C19_FetcherTerminates == <>(f_pc = "returned")

\* the requests of a fetch_org_repos or fetch_repo_pr_data call that were
\* answered 200 and so fetched a page
PagesFetched == IF url = 0 THEN Len(acc) ELSE url - 1

\* C20: in fetch_org_repos and fetch_repo_pr_data a 403 answer takes nothing from
\* the page budget: a call against a listing that offers at least the maximum
\* number of pages, answered only with 200 and 403, fetches that maximum number
\* of pages before it returns.
C20_ForbiddenKeepsBudget ==
    (/\ fn \in Services
     /\ f_pc = "returned"
     /\ returned.why \in { "cap", "no_next" }
     /\ offered >= PageCap(fn)) => PagesFetched = PageCap(fn)

\* C21: a call that ends on a status other than 200, 403 and 404 returns what it
\* had accumulated from the pages fetched before (fetch_org_repos: what it
\* returns after its loop for that list), not an empty list.
C21_OtherStatusReturnsAccumulated ==
    (f_pc = "returned" /\ returned.why = "status") =>
        returned.value = AfterLoop(fn, acc)

\* the pages of the listing the call has got with a 200 answer
PagesGot ==
    IF fn \in Services THEN PagesFetched
    ELSE IF f_pc = "prs" \/ (f_pc = "returned" /\ returned.why \in { "cutoff", "no_next" })
    THEN w_page ELSE w_page - 1

\* C22: a call gets at most 10 pages in fetch_org_repos, 20 in
\* fetch_repo_pr_data and 10 in fetch_merged_prs_for_repo, however many the
\* listing offers, and makes no request beyond them; a page without a next link
\* is the last one: the call then returns without another request, having got
\* every page the listing offers.
C22_PageCap ==
    /\ [](/\ fn = "fetch_org_repos" => PagesGot <= 10 /\ page_count <= 10 /\ Len(acc) <= 10
          /\ fn = "fetch_repo_pr_data" => PagesGot <= 20 /\ page_count <= 20 /\ Len(acc) <= 20
          /\ fn = "fetch_merged_prs_for_repo" => PagesGot <= 10
          /\ (fn \in Services /\ f_pc = "loop" /\ url = 0) =>
                 ~ENABLED SRequest /\ ENABLED SLoopEnd
          /\ (f_pc = "returned" /\ returned.why = "no_next") => PagesGot = offered
          /\ (f_pc = "returned" /\ returned.why = "cap") =>
                 PagesGot <= PageCap(fn) /\ offered >= PagesGot)
    /\ [][(f_pc = "loop" /\ fn \in Fetchers /\ PagesGot >= PageCap(fn)) =>
             (f_pc' = "returned" /\ UNCHANGED << answers, acc, page_count, w_page >>)]_vars
    /\ [][(f_pc = "prs" /\ f_pc' # "prs" /\ w_page >= offered) => f_pc' = "returned"]_vars

\* C22 witness: fetch_repo_pr_data has walked a listing of 21 pages and returns
\* the pull requests of the first 20.
C22_Witness ==
    /\ fn = "fetch_repo_pr_data" /\ offered = 21
    /\ f_pc = "returned" /\ returned.why = "cap"
    /\ Len(returned.value) = 20 /\ page_count = 20

\* fetch_org_repos has returned
ReposReturned == fn = "fetch_org_repos" /\ f_pc = "returned"

\* C23 as stated: fetch_org_repos returns an empty list whenever the fetch
\* failed, be it by a 404, another status, a timeout or a connection error.
C23_FailedFetchReturnsEmpty ==
    (ReposReturned /\ returned.why \in { "404", "status", "timeout", "error" }) =>
        returned.value = << >>

\* C23 amended: fetch_org_repos returns at most five of the repositories it
\* fetched, each once, in descending order of their star count (0 when absent),
\* none with fewer stars than one it leaves out; it returns five when it fetched
\* at least five and did not end on a 404 or another status; it returns an
\* empty list when it ended on a 404 or another status or fetched no repository.
C23_TopFive ==
    ReposReturned =>
        LET v == returned.value
        IN  /\ Len(v) <= 5
            /\ \A i, j \in 1 .. Len(v) : i < j => Stars(v[i]) >= Stars(v[j])
            /\ Range(v) \subseteq Range(acc)
            /\ Cardinality(Range(v)) = Len(v)
            /\ \A x \in Range(v), y \in Range(acc) \ Range(v) : Stars(x) >= Stars(y)
            /\ IF returned.why \in { "404", "status" } \/ acc = << >>
               THEN v = << >>
               ELSE Len(v) = IF Len(acc) < 5 THEN Len(acc) ELSE 5

\* C23 witness: ten repositories were fetched, the first without a star count
\* and the second with two stars; the second is returned first, the first
\* after it, and five repositories are left out.
C23_Witness ==
    /\ ReposReturned /\ returned.why = "no_next"
    /\ Len(acc) = 10 /\ Len(returned.value) = 5
    /\ "stargazers_count" \notin DOMAIN acc[1]
    /\ Stars(acc[2]) = 2
    /\ returned.value[1] = acc[2] /\ returned.value[2] = acc[1]

\* the entries gone through that are merged at or after the cutoff, as events
InWindow(entries) ==
    MergedOf(SelectSeq(entries, LAMBDA pr :
        pr.merged_at \notin { Null, Unparsable } /\ ~Old(pr)))

\* the step has gone through one more entry of the page, and that entry has
\* no merge time or one that does not parse
PassedOver ==
    /\ f_pc = "prs"
    /\ Len(seen') = Len(seen) + 1
    /\ seen'[Len(seen')].merged_at \in { Null, Unparsable }

\* C24: in fetch_merged_prs_for_repo an entry whose merge time does not parse,
\* and one without a merge time, is passed over: the walk stays in the page,
\* records nothing for it, keeps the events recorded before, and goes on with
\* the next entry or the end of the page; the events recorded are always those
\* of the entries merged at or after the cutoff, before and after such entries.
C24_UnparsableSkipped ==
    /\ [][PassedOver =>
             /\ f_pc' = "prs" /\ w_pos' = w_pos + 1
             /\ UNCHANGED << acc, returned, w_page, answers >>]_vars
    /\ [](f_pc = "prs" => (ENABLED WNextPR \/ ENABLED WEndPage))
    /\ [](fn = "fetch_merged_prs_for_repo" => acc = InWindow(seen))
    /\ []((fn = "fetch_merged_prs_for_repo" /\ f_pc = "returned"
            /\ returned.why \notin { "404", "status" }) => returned.value = InWindow(seen))

\* C24 witness: an entry whose merge time does not parse stood between two
\* merged pull requests, the second of them on the next page, and the call has
\* returned both events.
C24_Witness ==
    /\ fn = "fetch_merged_prs_for_repo" /\ f_pc = "returned"
    /\ returned.why = "no_next" /\ w_page = 2
    /\ Len(seen) = 3 /\ seen[2].merged_at = Unparsable /\ seen[1].merged_at # Null /\ seen[3].merged_at # Null
    /\ Len(returned.value) = 2

\* the records gone through, and whether the k-th of them is the first from id
\* K on to end its pass of the loop with its handle
Gone == 1 .. Len(yielded)
FirstOfHandle(k, K) ==
    /\ Truthy(yielded[k].github_slug)
    /\ yielded[k].id >= K
    /\ \A j \in 1 .. k - 1 :
          yielded[j].id >= K => yielded[j].github_slug # yielded[k].github_slug

\* C25: the handles put out by get_organization_list are pairwise distinct and
\* the ids ascend; a record is put out exactly if it yields a handle and no
\* record before it in id order yields the same.
C25_FirstOfEachHandle ==
    /\ \A i, j \in 1 .. Len(normalized_orgs) :
          i < j => /\ normalized_orgs[i].github_slug # normalized_orgs[j].github_slug
                   /\ normalized_orgs[i].id < normalized_orgs[j].id
    /\ \A i, j \in Gone : i < j => yielded[i].id < yielded[j].id
    /\ \A k \in Gone :
          FirstOfHandle(k, 0) <=> yielded[k] \in Range(normalized_orgs)
    /\ \A org \in Range(normalized_orgs) : org \in Range(yielded)

\* C25 witness: two records ended with the same handle, and the list returned
\* holds the first of them only.
C25_Witness ==
    /\ n_pc = "returned"
    /\ Len(yielded) = 2
    /\ Truthy(yielded[1].github_slug)
    /\ yielded[1].github_slug = yielded[2].github_slug
    /\ normalized_orgs = << yielded[1] >>

\* C26: with a starting id K given, every record get_organization_list returns
\* and every organization update_github_data goes through has an id >= K, and
\* every record with an id >= K that yields a handle no record with an id >= K
\* before it yields is returned and gone through.
C26_StartFromId ==
    \A K \in n_start_from_id :
        /\ n_pc \in { "returned", "for_org" } =>
              /\ \A org \in Range(normalized_orgs) : org.id >= K
              /\ \A k \in Gone :
                    FirstOfHandle(k, K) => yielded[k] \in Range(normalized_orgs)
        /\ n_pc = "for_org" =>
              /\ \A org \in Range(u_orgs) : org.id >= K
              /\ \A k \in Gone : FirstOfHandle(k, K) => yielded[k] \in Range(u_orgs)

\* C26 witness: the starting id is 2, the query has yielded the record of id 2
\* only, and update_github_data goes through it.
C26_Witness ==
    /\ n_start_from_id = { 2 }
    /\ n_pc = "for_org"
    /\ Len(u_orgs) = 1 /\ u_orgs[1].id = 2
    /\ Len(yielded) = 1

\* C27: the storing step of an organization either commits once, adding rows of
\* that organization only and their number to the total, or, when a lookup or
\* the commit fails, leaves merge_dates and the total as they were; the rows
\* stored before stay as they are, and the batch is then at the next
\* organization, whose fetch can start, or at its end.
C27_OneCommitPerOrganization ==
    /\ [][m_pc = "store" =>
             /\ SubSeq(merge_dates', 1, Len(merge_dates)) = merge_dates
             /\ \A i \in Len(merge_dates) + 1 .. Len(merge_dates') :
                    merge_dates'[i].organization_slug = MCur
             /\ total_merges' = total_merges + (Len(merge_dates') - Len(merge_dates))
             /\ prev'.end \in { "raised", "rolled_back" } =>
                    merge_dates' = merge_dates /\ total_merges' = total_merges
             /\ m_pc' = "org" /\ m_idx' = m_idx + 1]_vars
    /\ [](m_pc = "org" =>
             IF m_idx <= Len(m_orgs) THEN ENABLED MFetchRepos ELSE ENABLED MEndBatch)

\* C27 witness: the commit of an organization has failed and was rolled back
\* while merge_dates holds rows of another organization stored before, and the
\* batch stands at the next organization.
C27_Witness ==
    /\ m_pc = "org" /\ m_idx > 1 /\ m_idx <= Len(m_orgs)
    /\ prev.end = "rolled_back" /\ prev.count = 0 /\ prev.slug = m_orgs[m_idx - 1]
    /\ total_merges > 0
    /\ merge_dates # << >>
    /\ \A i \in 1 .. Len(merge_dates) : merge_dates[i].organization_slug # prev.slug

\* an HTTP request of update_github_data is in flight: fetch_github_org_data
\* runs in a worker thread
RequestInFlight == \E o \in OrgIds : worker[o] = "running"

\* update_github_data stands at a "with SessionLocal()" block of its retry loop
AtSession == pc = "persist"

\* fetch_merge_dates_for_organization stands at its "with SessionLocal()" block
MAtSession == m_pc = "store"

ProfileRefused == response \notin { "none", "200" }

\* the rows the tables hold for organization o that run r wrote
RowsOf(o, r) ==
    { i \in 1 .. Len(github_metrics) :
        github_metrics[i].slug = o /\ github_metrics[i].fetched_at = r }
    \cup { i \in 1 .. Len(historical_metrics) :
             historical_metrics[i].organization_slug = o
             /\ historical_metrics[i].recorded_at = r }

\* C29: when the profile request is answered 403, another status but 200, or
\* times out, fetch_github_org_data ends with that one request and returns
\* None; update_github_data then goes to the next organization, having written
\* no github_metrics row and no historical_metrics row for this one.
C29_RefusedProfileSkipsOrganization ==
    /\ [](ProfileRefused => future = "None" /\ data = None /\ worker[Cur] = "idle"
                            /\ pc \in { "result", "exit" })
    /\ [][ ProfileRefused =>
             \/ UNCHANGED << response, idx, github_metrics, historical_metrics >>
             \/ /\ response' = "none" /\ pc' = "loop" /\ idx' = idx + 1
                /\ outcome'[Cur] \in Skips
                /\ UNCHANGED << worker, github_metrics, historical_metrics >>
                /\ RowsOf(Cur, run) = { } ]_vars

\* C29 witness: the profile request of an organization that has rows from an
\* earlier run was answered 403, and the executor is about to be left.
C29_Witness ==
    /\ pc = "exit"
    /\ response = "403"
    /\ raised = "none"
    /\ RowsOf(Cur, run) = { }
    /\ \E r \in 1 .. run - 1 : RowsOf(Cur, r) # { }

====
